---- MODULE Spec2Model ----
(***************************************************************************)
(* CTC training-graph compilation (snowfall/training/ctc_graph.py).        *)
(*                                                                         *)
(* An Fsa is a record [num_states, arcs]: state 0 is the start state, the  *)
(* last state (num_states - 1) is the final state, and arcs is the list of *)
(* arcs [src, dst, label, aux], grouped by source state as k2 stores them. *)
(* num_states = 0 is the empty Fsa.                                        *)
(***************************************************************************)
EXTENDS Integers, Sequences, FiniteSets, TLC

\* ------------------------------------------------------------------ bounds
MaxTokens == 3      \* longest token list handed to a topology builder
MaxTokenId == 2     \* token ids of those lists are 0..MaxTokenId
MaxRawLen == 4      \* longest raw frame-level sequence fed to a graph
MaxTextLen == 3     \* longest transcript, in characters
MaxWords == 2       \* longest transcript, in words, whose graph is probed

\* --------------------------------------------------------------- optional
None == <<>>
Some(v) == <<v>>

\* ------------------------------------------------------------ sequences
RECURSIVE SeqsUpTo(_, _)
SeqsUpTo(S, n) ==
  IF n = 0 THEN {<<>>}
  ELSE LET shorter == SeqsUpTo(S, n - 1)
       IN  shorter \cup {Append(s, x) : s \in {t \in shorter : Len(t) = n - 1}, x \in S}

Range(s) == {s[i] : i \in DOMAIN s}

SelectArcs(arcs, state) == SelectSeq(arcs, LAMBDA a : a.src = state)

RECURSIVE Flatten(_)
Flatten(ss) == IF ss = <<>> THEN <<>> ELSE Head(ss) \o Flatten(Tail(ss))

\* ------------------------------------------------------------------- arcs
Arc(src, dst, label, aux) == [src |-> src, dst |-> dst, label |-> label, aux |-> aux]

\* k2 compares labels as unsigned 32-bit integers, so -1 sorts last: two
\* labels of the same sign compare as they are, a negative one is the larger
LabelLess(l1, l2) == IF (l1 < 0) = (l2 < 0) THEN l1 < l2 ELSE l2 < 0

\* the order of k2.arc_sort inside one state: label, then destination
ArcLess(x, y) ==
  \/ LabelLess(x.label, y.label)
  \/ x.label = y.label /\ x.dst < y.dst

RECURSIVE InsertArc(_, _)
InsertArc(x, s) ==
  IF s = <<>> THEN <<x>>
  ELSE IF ArcLess(Head(s), x) THEN <<Head(s)>> \o InsertArc(x, Tail(s))
       ELSE <<x>> \o s

RECURSIVE SortArcs(_)
SortArcs(s) == IF s = <<>> THEN <<>> ELSE InsertArc(Head(s), SortArcs(Tail(s)))

\* k2.arc_sort: the arcs leaving each state, sorted (stable)
arc_sort(fsa) ==
  [num_states |-> fsa.num_states,
   arcs |-> Flatten([s \in 1..fsa.num_states |-> SortArcs(SelectArcs(fsa.arcs, s - 1))])]

\* the ARC_SORTED bit of Fsa.properties
IsArcSorted(fsa) ==
  \A i \in 1..(Len(fsa.arcs) - 1) :
    fsa.arcs[i].src = fsa.arcs[i + 1].src => ~ArcLess(fsa.arcs[i + 1], fsa.arcs[i])

\* Python's stable sorted(arcs, key=lambda arc: arc[0]) over the states 0..n-1
SortBySource(arcs, n) == Flatten([s \in 1..n |-> SelectArcs(arcs, s - 1)])

\* k2.Fsa.from_str: the last line names the final state
from_str(arcs, final_state) == [num_states |-> final_state + 1, arcs |-> arcs]

\* -------------------------------------------------------- build_ctc_topo
\* variant: the final arc added after the loops, for the last state only
TopoRowArcsLastFinal(tokens, i) ==
  [j \in 1..Len(tokens) |->
     IF i = j THEN Arc(i - 1, i - 1, tokens[i], 0)
     ELSE Arc(i - 1, j - 1, tokens[j], tokens[j])]
  \o (IF i = Len(tokens) THEN <<Arc(i - 1, Len(tokens), -1, -1)>> ELSE <<>>)

\* variant: the self-loop emits its token
TopoRowArcsLoopEmits(tokens, i) ==
  [j \in 1..Len(tokens) |-> Arc(i - 1, j - 1, tokens[j], tokens[j])]
  \o <<Arc(i - 1, Len(tokens), -1, -1)>>

TopoRowArcs(tokens, i) ==
  [j \in 1..Len(tokens) |->
     IF i = j THEN Arc(i - 1, i - 1, tokens[i], 0)
     ELSE Arc(i - 1, j - 1, tokens[j], tokens[j])]
  \o <<Arc(i - 1, Len(tokens), -1, -1)>>

TopoArcs(tokens) == Flatten([i \in 1..Len(tokens) |-> TopoRowArcs(tokens, i)])

build_ctc_topo(tokens) ==
  IF 0 \notin Range(tokens) THEN None
  ELSE Some(arc_sort(from_str(TopoArcs(tokens), Len(tokens))))

\* ------------------------------------------------------- build_ctc_topo2
\* variant: every occurrence dropped
RemoveAll(s, x) == SelectSeq(s, LAMBDA y : y # x)

\* list.remove(0): drops the first occurrence only
RECURSIVE RemoveFirst(_, _)
RemoveFirst(s, x) ==
  IF s = <<>> THEN <<>>
  ELSE IF Head(s) = x THEN Tail(s)
       ELSE <<Head(s)>> \o RemoveFirst(Tail(s), x)

\* variant: leaving the token state emits the token again
Topo2PhoneArcsReemit(p, i) ==
  <<Arc(0, 0, p, p), Arc(0, i, p, p), Arc(i, i, p, 0), Arc(i, 0, p, p)>>

Topo2PhoneArcs(p, i) ==
  <<Arc(0, 0, p, p), Arc(0, i, p, p), Arc(i, i, p, 0), Arc(i, 0, p, 0)>>

\* variant: the arc into the final state labelled as blank
Topo2ArcsBlankFinal(phones) ==
  <<Arc(0, 0, 0, 0), Arc(0, Len(phones) + 1, 0, 0)>>
  \o Flatten([i \in 1..Len(phones) |-> Topo2PhoneArcs(phones[i], i)])

Topo2Arcs(phones) ==
  <<Arc(0, 0, 0, 0), Arc(0, Len(phones) + 1, -1, -1)>>
  \o Flatten([i \in 1..Len(phones) |-> Topo2PhoneArcs(phones[i], i)])

build_ctc_topo2(phones) ==
  IF 0 \notin Range(phones) THEN None
  ELSE LET rest == RemoveFirst(phones, 0)
           final == Len(rest) + 1
       IN  Some(arc_sort(from_str(SortBySource(Topo2Arcs(rest), final), final)))

\* ------------------------------------------------- reading an Fsa's paths
FinalState(fsa) == fsa.num_states - 1

\* the states from which the sequence read so far is complete
CanFinish(fsa, state) ==
  \E i \in DOMAIN fsa.arcs : fsa.arcs[i].src = state /\ fsa.arcs[i].label = -1

\* one frame of input on the primary labels, collecting the non-epsilon aux
\* labels: a configuration is <<state, output so far>>
StepConfs(fsa, confs, t) ==
  UNION {
    {<<fsa.arcs[i].dst,
       IF fsa.arcs[i].aux = 0 THEN c[2] ELSE Append(c[2], fsa.arcs[i].aux)>> :
       i \in {k \in DOMAIN fsa.arcs :
                fsa.arcs[k].src = c[1] /\ fsa.arcs[k].label = t}} :
    c \in confs}

\* the outputs of the complete paths among the configurations
Outputs(fsa, confs) == {c[2] : c \in {d \in confs : CanFinish(fsa, d[1])}}

\* the canonical CTC decoding: merge immediate repeats, then drop blanks
RECURSIVE MergeRepeats(_)
MergeRepeats(s) ==
  IF Len(s) <= 1 THEN s
  ELSE IF s[1] = s[2] THEN MergeRepeats(Tail(s))
       ELSE <<s[1]>> \o MergeRepeats(Tail(s))

Collapse(s) == SelectSeq(MergeRepeats(s), LAMBDA t : t # 0)

\* one frame of input, states only
StepStates(fsa, states, t) ==
  {fsa.arcs[i].dst :
     i \in {k \in DOMAIN fsa.arcs : fsa.arcs[k].src \in states /\ fsa.arcs[k].label = t}}

\* the raw sequence that led to `states` is accepted
Accepting(fsa, states) == \E s \in states : CanFinish(fsa, s)

\* ----------------------------------------------------------- k2 algebra
EmptyFsa == [num_states |-> 0, arcs |-> <<>>]

\* k2.linear_fsa of one id list
LinearFsa(ids) ==
  [num_states |-> Len(ids) + 2,
   arcs |-> [i \in 1..(Len(ids) + 1) |->
               IF i <= Len(ids) THEN Arc(i - 1, i, ids[i], ids[i])
               ELSE Arc(i - 1, i, -1, -1)]]

\* k2.linear_fsa of a batch: one chain per id list
linear_fsa(word_ids) == [n \in DOMAIN word_ids |-> LinearFsa(word_ids[n])]

\* Fsa.invert_: swap labels and aux labels
\* variant: the swap forgotten
InvertArcNoSwap(x) == Arc(x.src, x.dst, x.label, x.aux)

InvertArc(x) == Arc(x.src, x.dst, x.aux, x.label)

invert_(fsa) ==
  [num_states |-> fsa.num_states, arcs |-> [i \in DOMAIN fsa.arcs |-> InvertArc(fsa.arcs[i])]]

\* the state of a product Fsa that stands for the pair (sa, sb)
Pair(sa, sb, nb) == sa * nb + sb

\* what a's arc is matched on: its aux label in a composition, its label in
\* an intersection
MatchKey(x, on_aux) == IF on_aux THEN x.aux ELSE x.label

\* arcs of the product of a and b: a's arc and b's arc move together when
\* a's key equals b's label; epsilon (0) on either side moves that side
\* alone; the result has a's labels and b's aux labels
ProductArcs(a, b, on_aux) ==
  Flatten([i \in DOMAIN a.arcs |->
    IF MatchKey(a.arcs[i], on_aux) = 0
    THEN [sb \in 1..b.num_states |->
            Arc(Pair(a.arcs[i].src, sb - 1, b.num_states),
                Pair(a.arcs[i].dst, sb - 1, b.num_states),
                a.arcs[i].label, 0)]
    ELSE Flatten([j \in DOMAIN b.arcs |->
            IF MatchKey(a.arcs[i], on_aux) = b.arcs[j].label
            THEN <<Arc(Pair(a.arcs[i].src, b.arcs[j].src, b.num_states),
                       Pair(a.arcs[i].dst, b.arcs[j].dst, b.num_states),
                       a.arcs[i].label, b.arcs[j].aux)>>
            ELSE <<>>])])
  \o
  Flatten([j \in DOMAIN b.arcs |->
    IF b.arcs[j].label = 0
    THEN [sa \in 1..a.num_states |->
            Arc(Pair(sa - 1, b.arcs[j].src, b.num_states),
                Pair(sa - 1, b.arcs[j].dst, b.num_states),
                0, b.arcs[j].aux)]
    ELSE <<>>])

Product(a, b, on_aux) ==
  IF a.num_states = 0 \/ b.num_states = 0 THEN EmptyFsa
  ELSE [num_states |-> a.num_states * b.num_states,
        arcs |-> SortBySource(ProductArcs(a, b, on_aux), a.num_states * b.num_states)]

\* k2.intersect(a, b): match labels with labels; the aux labels are b's
intersect(a, b) == Product(a, b, FALSE)

\* k2.compose(a, b): match a's aux labels with b's labels; the result has
\* a's labels and b's aux labels
compose(a, b) == Product(a, b, TRUE)

RECURSIVE Forward(_, _)
Forward(fsa, states) ==
  LET more == states \cup {fsa.arcs[i].dst : i \in {k \in DOMAIN fsa.arcs : fsa.arcs[k].src \in states}}
  IN  IF more = states THEN states ELSE Forward(fsa, more)

RECURSIVE Backward(_, _)
Backward(fsa, states) ==
  LET more == states \cup {fsa.arcs[i].src : i \in {k \in DOMAIN fsa.arcs : fsa.arcs[k].dst \in states}}
  IN  IF more = states THEN states ELSE Backward(fsa, more)

\* k2.connect: keep the states on a path from the start to the final state
connect(fsa) ==
  IF fsa.num_states = 0 THEN EmptyFsa
  ELSE LET keep == Forward(fsa, {0}) \cap Backward(fsa, {FinalState(fsa)})
           rank(s) == Cardinality({t \in keep : t < s})
           kept == SelectSeq(fsa.arcs, LAMBDA x : x.src \in keep /\ x.dst \in keep)
       IN  IF 0 \notin keep THEN EmptyFsa
           ELSE [num_states |-> Cardinality(keep),
                 arcs |-> [i \in DOMAIN kept |->
                             Arc(rank(kept[i].src), rank(kept[i].dst),
                                 kept[i].label, kept[i].aux)]]

\* ------------------------------------------------- symbol tables, lexicon
\* A string is a sequence of one-character strings.
WordTable == (<<"a">> :> 1) @@ (<<"b">> :> 2) @@ (<<"u">> :> 3)

PhoneTable == ("<eps>" :> 0) @@ ("P" :> 1) @@ ("Q" :> 2) @@ ("R" :> 3)

RECURSIVE SortedSeq(_)
SortedSeq(S) ==
  IF S = {} THEN <<>>
  ELSE LET m == CHOOSE x \in S : \A y \in S : x <= y
       IN  <<m>> \o SortedSeq(S \ {m})

\* snowfall.common.get_phone_symbols: the ids of the phones, epsilon excluded
get_phone_symbols(table) == SortedSeq({table[sym] : sym \in DOMAIN table} \ {0})

\* the phones of a transcript's words, in order, under a pronunciation map
RECURSIVE PhoneSeq(_, _)
PhoneSeq(lex, toks) ==
  IF toks = <<>> THEN <<>> ELSE lex[Head(toks)] \o PhoneSeq(lex, Tail(toks))

\* first intermediate state of the k-th word's pronunciation
RECURSIVE LexBase(_, _, _)
LexBase(lex, ws, k) ==
  IF k = 1 THEN 1 ELSE LexBase(lex, ws, k - 1) + Len(lex[ws[k - 1]]) - 1

\* the word-to-phone arcs of one lexicon entry: the word on its first arc,
\* epsilon on the others, one phone per arc, back to the loop state 0
LexWordArcs(wid, pron, base) ==
  [i \in 1..Len(pron) |->
     Arc(IF i = 1 THEN 0 ELSE base + i - 2,
         IF i = Len(pron) THEN 0 ELSE base + i - 1,
         IF i = 1 THEN wid ELSE 0,
         pron[i])]

\* the lexicon handed to the compiler: labels are words, aux labels phones
MakeLinv(lex, table) ==
  LET ws == SortedSeq({table[w] : w \in DOMAIN lex})
      sym(id) == CHOOSE w \in DOMAIN lex : table[w] = id
      syms == [k \in DOMAIN ws |-> sym(ws[k])]
      final == LexBase(lex, syms, Len(syms) + 1)
      arcs == Flatten([k \in DOMAIN syms |->
                         LexWordArcs(ws[k], lex[syms[k]], LexBase(lex, syms, k))])
              \o <<Arc(0, final, -1, -1)>>
  IN  arc_sort(from_str(SortBySource(arcs, final), final))

RECURSIVE Reverse(_)
Reverse(s) == IF s = <<>> THEN <<>> ELSE Append(Reverse(Tail(s)), Head(s))

\* the same lexicon with the arcs of every state in the opposite order
Unsorted(fsa) ==
  [num_states |-> fsa.num_states,
   arcs |-> Flatten([s \in 1..fsa.num_states |-> Reverse(SelectArcs(fsa.arcs, s - 1))])]

\* ------------------------------------------------------------- compile
\* str.split(' '): every single space separates; '' splits to ['']
RECURSIVE Split(_)
Split(text) ==
  IF \A i \in DOMAIN text : text[i] # " " THEN <<text>>
  ELSE LET i == CHOOSE k \in DOMAIN text :
                  text[k] = " " /\ \A m \in 1..(k - 1) : text[m] # " "
       IN  <<SubSeq(text, 1, i - 1)>> \o Split(SubSeq(text, i + 1, Len(text)))

\* ' '.join(tokens)
RECURSIVE Join(_)
Join(toks) ==
  IF toks = <<>> THEN <<>>
  ELSE IF Len(toks) = 1 THEN toks[1]
       ELSE toks[1] \o <<" ">> \o Join(Tail(toks))

\* variant: no substitution
SubstituteNothing(token, table, oov_sym) == token

\* token if token in self.words else self.oov
Substitute(token, table, oov_sym) == IF token \in DOMAIN table THEN token ELSE oov_sym

\* [self.words[token] for token in tokens]; None stands for a KeyError
WordIdsOf(text, table, oov_sym) ==
  LET toks == [i \in DOMAIN Split(text) |-> Substitute(Split(text)[i], table, oov_sym)]
  IN  IF \A i \in DOMAIN toks : toks[i] \in DOMAIN table
      THEN Some([i \in DOMAIN toks |-> table[toks[i]]])
      ELSE None

\* lines 129-133 for one chain of the batch
DecodingGraph(label_fsa, lexicon_fsa, topo_fsa) ==
  connect(compose(topo_fsa,
                  arc_sort(invert_(connect(intersect(label_fsa, lexicon_fsa))))))

\* ----------------------------------------------------------- constructor
\* lines 96-97: the lexicon the constructor goes on with
SortedLexicon(lexicon_fsa) ==
  IF IsArcSorted(lexicon_fsa) THEN arc_sort(lexicon_fsa) ELSE lexicon_fsa

\* variant: the assertion left out
OovUnchecked(oov_sym, table) == TRUE

\* line 99: assert oov in words
OovKnown(oov_sym, table) == oov_sym \in DOMAIN table

\* lines 105-110
CompilerTopo(kind, phone_table) ==
  LET phone_ids_with_blank == <<0>> \o get_phone_symbols(phone_table)
  IN  IF kind = "normal" THEN arc_sort(build_ctc_topo(phone_ids_with_blank)[1])
      ELSE arc_sort(build_ctc_topo2(phone_ids_with_blank)[1])

\* ------------------------------------------------------------------ inputs
Phones == {PhoneTable[sym] : sym \in DOMAIN PhoneTable} \ {0}

\* one word W = "a" pronounced [p1, p2], two different phones
SingleWordLexicons ==
  {(<<"a">> :> <<pp[1], pp[2]>>) : pp \in {q \in Phones \X Phones : q[1] # q[2]}}

\* every word of the table pronounced, with repeated phones within and
\* across words
FullLexicons ==
  {(<<"a">> :> <<1>>) @@ (<<"b">> :> <<2, 1>>) @@ (<<"u">> :> <<3>>),
   (<<"a">> :> <<1, 1>>) @@ (<<"b">> :> <<2>>) @@ (<<"u">> :> <<3, 1>>)}

Lexicons == SingleWordLexicons \cup FullLexicons

Chars == {"a", "b", "u", "x", " "}

Texts == SeqsUpTo(Chars, MaxTextLen)

\* transcripts of known words
WordTexts == {Join(ws) : ws \in SeqsUpTo({<<"a">>, <<"b">>}, MaxWords)}

OovSymbols == {<<"u">>, <<"z">>}

TokenLists == SeqsUpTo(0..MaxTokenId, MaxTokens) \ {<<>>}

\* ------------------------------------------------------------------- state
VARIABLES
  pc,              \* where the compiler object is in its life
  lexicon,         \* the pronunciations arg_L_inv was made from
  arg_L_inv,       \* constructor argument L_inv
  arg_topo,        \* constructor argument topo
  arg_oov,         \* constructor argument oov
  local_L_inv,     \* the constructor's local name L_inv
  L_inv,           \* self.L_inv
  phones,          \* self.phones
  words,           \* self.words
  oov,             \* self.oov
  ctc_topo,        \* self.ctc_topo
  texts,           \* argument of the last compile call
  word_ids,        \* its word_ids
  decoding_graph,  \* its result
  raw,             \* frames fed so far to the graph under examination
  cur,             \* states of decoding_graph[1] reached by raw
  tokens,          \* argument of the last direct topology-builder call
  built,           \* which builder that was
  topo,            \* its result
  confs            \* configurations of topo reached by raw

vars == <<pc, lexicon, arg_L_inv, arg_topo, arg_oov, local_L_inv, L_inv, phones,
          words, oov, ctc_topo, texts, word_ids, decoding_graph, raw, cur,
          tokens, built, topo, confs>>

fieldVars == <<L_inv, phones, words, oov, ctc_topo>>
argVars == <<lexicon, arg_L_inv, arg_topo, arg_oov>>
callVars == <<texts, word_ids, decoding_graph>>
topoVars == <<tokens, built, topo, confs>>

Init ==
  /\ pc = "new"
  /\ lexicon \in Lexicons
  /\ arg_L_inv \in {MakeLinv(lexicon, WordTable), Unsorted(MakeLinv(lexicon, WordTable))}
  /\ arg_topo \in {"normal", "modified"}
  /\ arg_oov \in OovSymbols
  /\ local_L_inv = arg_L_inv
  /\ L_inv = None /\ phones = None /\ words = None /\ oov = None /\ ctc_topo = None
  /\ texts = None /\ word_ids = None /\ decoding_graph = None
  /\ raw = <<>> /\ cur = {}
  /\ tokens = None /\ built = "none" /\ topo = None /\ confs = {}

\* ---------------------------------------------------- __init__, by line
CtorSort ==
  /\ pc = "new"
  /\ local_L_inv' = SortedLexicon(local_L_inv)
  /\ pc' = "sorted"
  /\ UNCHANGED <<argVars, fieldVars, callVars, raw, cur, topoVars>>

CtorAssert ==
  /\ pc = "sorted"
  /\ pc' = IF OovKnown(arg_oov, WordTable) THEN "checked" ELSE "failed"
  /\ UNCHANGED <<argVars, local_L_inv, fieldVars, callVars, raw, cur, topoVars>>

CtorFields ==
  /\ pc = "checked"
  /\ L_inv' = Some(local_L_inv)
  /\ phones' = Some(PhoneTable)
  /\ words' = Some(WordTable)
  /\ oov' = Some(arg_oov)
  /\ pc' = "fields"
  /\ UNCHANGED <<argVars, local_L_inv, ctc_topo, callVars, raw, cur, topoVars>>

CtorTopo ==
  /\ pc = "fields"
  /\ ctc_topo' = Some(CompilerTopo(arg_topo, phones[1]))
  /\ pc' = "ready"
  /\ UNCHANGED <<argVars, local_L_inv, L_inv, phones, words, oov, callVars, raw, cur, topoVars>>

\* ------------------------------------------------------------- compile
CompileIds(txts) == [n \in DOMAIN txts |-> WordIdsOf(txts[n], words[1], oov[1])]

\* (a behaviour follows one call: compile keeps nothing from call to call)
Compile(txts) ==
  /\ pc = "ready"
  /\ texts = None
  /\ texts' = Some(txts)
  /\ IF \E n \in DOMAIN txts : CompileIds(txts)[n] = None
     THEN /\ word_ids' = None
          /\ decoding_graph' = None
          /\ cur' = {}
     ELSE LET ids == [n \in DOMAIN txts |-> CompileIds(txts)[n][1]]
              graphs == [n \in DOMAIN txts |->
                           DecodingGraph(linear_fsa(ids)[n], L_inv[1], ctc_topo[1])]
          IN  /\ word_ids' = Some(ids)
              /\ decoding_graph' = Some(graphs)
              /\ cur' = IF graphs[1].num_states = 0 THEN {} ELSE {0}
  /\ raw' = <<>>
  /\ UNCHANGED <<pc, argVars, local_L_inv, fieldVars, topoVars>>

CompileText == \E t \in Texts : Compile(<<t>>)

CompileWords == \E t \in WordTexts : Compile(<<t>>)

\* one more frame read on the graph of the last compile call
Feed ==
  /\ pc = "ready"
  /\ decoding_graph # None
  /\ Len(raw) < MaxRawLen
  /\ \E t \in {0} \cup Phones :
       /\ raw' = Append(raw, t)
       /\ cur' = StepStates(decoding_graph[1][1], cur, t)
  /\ UNCHANGED <<pc, argVars, local_L_inv, fieldVars, callVars, topoVars>>

\* ---------------------------------------------- the builders on their own
\* (a behaviour follows one call of one builder)
CallBuildCtcTopo ==
  /\ built = "none"
  /\ \E tk \in TokenLists :
       /\ tokens' = Some(tk)
       /\ topo' = build_ctc_topo(tk)
       /\ confs' = IF build_ctc_topo(tk) = None THEN {} ELSE {<<0, <<>>>>}
  /\ built' = "normal"
  /\ raw' = <<>>
  /\ UNCHANGED <<pc, argVars, local_L_inv, fieldVars, callVars, cur>>

CallBuildCtcTopo2 ==
  /\ built = "none"
  /\ \E tk \in TokenLists :
       /\ tokens' = Some(tk)
       /\ topo' = build_ctc_topo2(tk)
       /\ confs' = IF build_ctc_topo2(tk) = None THEN {} ELSE {<<0, <<>>>>}
  /\ built' = "modified"
  /\ raw' = <<>>
  /\ UNCHANGED <<pc, argVars, local_L_inv, fieldVars, callVars, cur>>

\* one more frame read on the topology of the last builder call
FeedTopo ==
  /\ topo # None
  /\ Len(raw) < MaxRawLen
  /\ \E t \in Range(tokens[1]) :
       /\ raw' = Append(raw, t)
       /\ confs' = StepConfs(topo[1], confs, t)
  /\ UNCHANGED <<pc, argVars, local_L_inv, fieldVars, callVars, cur, tokens, built, topo>>

\* ---------------------------------------------------------- specifications
\* the compiler: construction, then compile calls on arbitrary transcripts
Next == CtorSort \/ CtorAssert \/ CtorFields \/ CtorTopo \/ CompileText

Spec == Init /\ [][Next]_vars

\* the compiler and the language of its graphs
NextAccept == CtorSort \/ CtorAssert \/ CtorFields \/ CtorTopo \/ CompileWords \/ Feed

SpecAccept == Init /\ [][NextAccept]_vars

\* the topology builders called directly
InitTopo ==
  /\ Init
  /\ lexicon = (<<"a">> :> <<1, 2>>)
  /\ arg_L_inv = MakeLinv(lexicon, WordTable)
  /\ arg_topo = "normal"
  /\ arg_oov = <<"u">>

NextTopo == CallBuildCtcTopo \/ CallBuildCtcTopo2 \/ FeedTopo

SpecTopo == InitTopo /\ [][NextTopo]_vars

\* ================================================================ claims
Count(S) == Cardinality(S)

ArcIndices(fsa, P(_)) == {k \in DOMAIN fsa.arcs : P(fsa.arcs[k])}

Distinct(s) == \A i, j \in DOMAIN s : i # j => s[i] # s[j]

NormalBuilt == built = "normal" /\ topo # None
ModifiedBuilt == built = "modified" /\ topo # None

\* C3: for a token list of length n containing 0, build_ctc_topo returns
\* n+1 states; one self-loop per state i, labelled (tokens[i], 0); one arc
\* per ordered pair i # j, labelled (tokens[j], tokens[j]); one (-1, -1) arc
\* from each state to the final state n; n*n + n arcs in all.
C3_QuadraticCounts ==
  NormalBuilt =>
    LET n == Len(tokens[1])
        f == topo[1]
    IN  /\ f.num_states = n + 1
        /\ Len(f.arcs) = n * n + n
        /\ Count(ArcIndices(f, LAMBDA x : x.src = x.dst)) = n
        /\ Count(ArcIndices(f, LAMBDA x : x.src # x.dst /\ x.dst # n)) = n * (n - 1)
        /\ Count(ArcIndices(f, LAMBDA x : x.label = -1)) = n
        /\ \A i \in 0..(n - 1) :
             /\ Count(ArcIndices(f, LAMBDA x : x = Arc(i, i, tokens[1][i + 1], 0))) = 1
             /\ Count(ArcIndices(f, LAMBDA x : x = Arc(i, n, -1, -1))) = 1
             /\ \A j \in 0..(n - 1) \ {i} :
                  /\ Count(ArcIndices(f, LAMBDA x : x.src = i /\ x.dst = j)) = 1
                  /\ Count(ArcIndices(f, LAMBDA x :
                         x = Arc(i, j, tokens[1][j + 1], tokens[1][j + 1]))) = 1

C3_Witness == NormalBuilt /\ Len(tokens[1]) = MaxTokens

\* the token list once its first 0 is taken out
WithoutFirstZero(s) ==
  LET z == CHOOSE k \in DOMAIN s : s[k] = 0 /\ \A m \in 1..(k - 1) : s[m] # 0
  IN  [i \in 1..(Len(s) - 1) |-> IF i < z THEN s[i] ELSE s[i + 1]]

\* C4: for a phone list containing 0 with n entries left once 0 is removed,
\* build_ctc_topo2 returns n+2 states and 4n+2 arcs: start->start (0,0),
\* start->final (-1,-1) and, for the token p at position i, start->start
\* (p,p), start->i (p,p), i->i (p,0) and i->start (p,0).
C4_LinearCounts ==
  ModifiedBuilt =>
    LET rest == WithoutFirstZero(tokens[1])
        n == Len(rest)
        f == topo[1]
    IN  /\ f.num_states = n + 2
        /\ Len(f.arcs) = 4 * n + 2
        /\ Count(ArcIndices(f, LAMBDA x : x = Arc(0, n + 1, -1, -1))) = 1
        /\ Count(ArcIndices(f, LAMBDA x : x.src = 0 /\ x.dst = 0)) = n + 1
        /\ Count(ArcIndices(f, LAMBDA x : x = Arc(0, 0, 0, 0)))
             = 1 + Count({i \in 1..n : rest[i] = 0})
        /\ \A i \in 1..n :
             /\ Count(ArcIndices(f, LAMBDA x : x = Arc(0, 0, rest[i], rest[i])))
                  = Count({j \in 1..n : rest[j] = rest[i]}) + (IF rest[i] = 0 THEN 1 ELSE 0)
             /\ Count(ArcIndices(f, LAMBDA x : x = Arc(0, i, rest[i], rest[i]))) = 1
             /\ Count(ArcIndices(f, LAMBDA x : x = Arc(i, i, rest[i], 0))) = 1
             /\ Count(ArcIndices(f, LAMBDA x : x = Arc(i, 0, rest[i], 0))) = 1

C4_Witness == ModifiedBuilt /\ Len(tokens[1]) = MaxTokens /\ Distinct(tokens[1])

\* an arc is labelled -1 exactly when it ends in the final state
MinusOneIffFinal(f) ==
  \A k \in DOMAIN f.arcs : f.arcs[k].label = -1 <=> f.arcs[k].dst = FinalState(f)

FinalArcsFrom(f, s) ==
  ArcIndices(f, LAMBDA x : x.src = s /\ x.label = -1 /\ x.dst = FinalState(f))

\* C10 as stated: in either topology an arc is labelled -1 iff it ends in
\* the final state, and every non-final state has exactly one -1 arc to the
\* final state.
C10_Original ==
  topo # None =>
    /\ MinusOneIffFinal(topo[1])
    /\ \A s \in 0..(FinalState(topo[1]) - 1) : Count(FinalArcsFrom(topo[1], s)) = 1

\* C10 amended: in either topology an arc is labelled -1 iff it ends in the
\* final state; every non-final state of build_ctc_topo has exactly one -1
\* arc to the final state; in build_ctc_topo2 the start state has exactly
\* one and the token states have none.
C10_FinalArcs ==
  topo # None =>
    /\ MinusOneIffFinal(topo[1])
    /\ built = "normal" =>
         \A s \in 0..(FinalState(topo[1]) - 1) : Count(FinalArcsFrom(topo[1], s)) = 1
    /\ built = "modified" =>
         /\ Count(FinalArcsFrom(topo[1], 0)) = 1
         /\ \A s \in 1..(FinalState(topo[1]) - 1) : Count(FinalArcsFrom(topo[1], s)) = 0

C10_Witness == ModifiedBuilt /\ topo[1].num_states = MaxTokens + 1

Compiled == texts # None /\ word_ids # None /\ decoding_graph # None

\* the transcript, split, and the graph of the call under examination
Toks == Split(texts[1][1])
Graph == decoding_graph[1][1]
Accepted == Accepting(Graph, cur)

\* C7 as stated: once the fields are set, the stored lexicon is arc-sorted
\* whatever the lexicon passed in, and it is the argument itself when that
\* was already sorted.
C7_Original ==
  L_inv # None =>
    /\ IsArcSorted(L_inv[1])
    /\ IsArcSorted(arg_L_inv) => L_inv[1] = arg_L_inv

\* C8: with an OOV symbol missing from the word table the constructor fails
\* at its assertion: no field is ever set, the topology is never built and
\* compile never runs.
C8_FailsBeforeFields ==
  arg_oov \notin DOMAIN WordTable =>
    /\ pc \in {"new", "sorted", "failed"}
    /\ L_inv = None /\ phones = None /\ words = None /\ oov = None
    /\ ctc_topo = None
    /\ texts = None /\ decoding_graph = None

C8_Witness == pc = "failed" /\ arg_oov \notin DOMAIN WordTable

\* the transcript with every word missing from the table replaced by the
\* OOV symbol
ReplacedText ==
  Join([i \in DOMAIN Toks |-> IF Toks[i] \in DOMAIN words[1] THEN Toks[i] ELSE oov[1]])

\* C5: compile never fails on a word missing from the table; the word ids,
\* and the graph, are those of the transcript with each such word replaced
\* by the OOV symbol, and every such word gets the OOV symbol's id.
C5_OovSubstitution ==
  texts # None =>
    /\ Compiled
    /\ CompileIds(<<ReplacedText>>)[1] = Some(word_ids[1][1])
    /\ Len(word_ids[1][1]) = Len(Toks)
    /\ \A i \in DOMAIN Toks :
         Toks[i] \notin DOMAIN words[1] => word_ids[1][1][i] = words[1][oov[1]]
    /\ Graph = DecodingGraph(LinearFsa(CompileIds(<<ReplacedText>>)[1][1]),
                             L_inv[1], ctc_topo[1])

C5_Witness ==
  /\ Compiled
  /\ \E i, j \in DOMAIN Toks :
       /\ Toks[i] # Toks[j]
       /\ Toks[i] \notin DOMAIN words[1]
       /\ Toks[j] \notin DOMAIN words[1]
       /\ word_ids[1][1][i] = word_ids[1][1][j]

\* C6 as stated: compile([""]) gives a word-id list of length zero and a
\* graph that accepts exactly the blank-only raw sequences.
C6_Original ==
  texts = Some(<<<<>>>>) =>
    /\ Compiled
    /\ Len(word_ids[1][1]) = 0
    /\ Accepted <=> (\A i \in DOMAIN raw : raw[i] = 0)

\* every word of the transcript is in the word table and in the lexicon
KnownTranscript ==
  /\ Compiled
  /\ \A i \in DOMAIN Toks : Toks[i] \in DOMAIN words[1] /\ Toks[i] \in DOMAIN lexicon

\* C1 as stated: with either topology the graph accepts a raw sequence iff
\* its canonical collapse is the transcript's phone sequence.
C1_Original ==
  KnownTranscript => (Accepted <=> Collapse(raw) = PhoneSeq(lexicon, Toks))

Copies(p, j) == [i \in 1..j |-> p]

RunLength(s) ==
  CHOOSE k \in 1..Len(s) :
    /\ \A i \in 1..k : s[i] = s[1]
    /\ k < Len(s) => s[k + 1] # s[1]

\* blanks dropped, every maximal run of a phone kept as one or more copies
RECURSIVE RunDecodings(_)
RunDecodings(s) ==
  IF s = <<>> THEN {<<>>}
  ELSE LET k == RunLength(s)
           tails == RunDecodings(SubSeq(s, k + 1, Len(s)))
       IN  IF s[1] = 0 THEN tails
           ELSE {Copies(s[1], j) \o t : j \in 1..k, t \in tails}

NoAdjacentRepeat(s) == \A i \in 1..(Len(s) - 1) : s[i] # s[i + 1]

\* C1 amended: with the 'normal' topology the graph accepts a raw sequence
\* iff its canonical collapse is the transcript's phone sequence; with the
\* 'modified' topology it accepts a raw sequence iff the phone sequence is
\* what remains after dropping the blanks and keeping one or more copies of
\* every maximal run of a phone, which is the same condition whenever no two
\* adjacent phones of the transcript are equal.
C1_AcceptedLanguage ==
  KnownTranscript =>
    LET target == PhoneSeq(lexicon, Toks)
    IN  /\ arg_topo = "normal" => (Accepted <=> Collapse(raw) = target)
        /\ arg_topo = "modified" => (Accepted <=> target \in RunDecodings(raw))
        /\ NoAdjacentRepeat(target) => (Accepted <=> Collapse(raw) = target)

C1_Witness ==
  /\ KnownTranscript
  /\ Len(Toks) = 2
  /\ arg_topo = "modified"
  /\ Accepted
  /\ Len(raw) = MaxRawLen
  /\ Collapse(raw) = PhoneSeq(lexicon, Toks)
  /\ 0 \in Range(raw)

\* C2: for the single word W = "a" pronounced [p1, p2] and the transcript
\* "a", the graph (either topology) accepts p1 p1 p2, p1 p2 p2 and
\* p1 p1 p2 p2, and rejects every raw sequence with a phone other than p1, p2.
C2_SingleWord ==
  (Compiled /\ lexicon \in SingleWordLexicons /\ texts[1][1] = <<"a">>) =>
    LET p1 == lexicon[<<"a">>][1]
        p2 == lexicon[<<"a">>][2]
    IN  /\ raw \in {<<p1, p1, p2>>, <<p1, p2, p2>>, <<p1, p1, p2, p2>>} => Accepted
        /\ (\E i \in DOMAIN raw : raw[i] \notin {0, p1, p2}) => ~Accepted

C2_Witness ==
  /\ Compiled /\ lexicon \in SingleWordLexicons /\ texts[1][1] = <<"a">>
  /\ raw = <<lexicon[<<"a">>][1], lexicon[<<"a">>][1], lexicon[<<"a">>][2], lexicon[<<"a">>][2]>>
  /\ Accepted

====
